---- MODULE Spec2Model ----
(***************************************************************************)
(* Weather MCP server: the TTL response cache, its key derivation and the  *)
(* request dispatchers built on it (tools/common.py for the FastMCP tools, *)
(* server.py / server_http.py / server_mcp_sse.py for the class servers).  *)
(***************************************************************************)
EXTENDS Integers, Sequences, FiniteSets, TLC

VARIABLES
    variant,    \* which server runs: "fastmcp", "stdio" or "http"
    api_key,    \* API_KEY / self.api_key, read once when the process starts
    environ,    \* os.environ["OPENWEATHER_API_KEY"] ("" when unset)
    cache,      \* _cache / self.cache: key -> [data, timestamp]
    now,        \* datetime.now().timestamp()
    req,        \* per in-flight tool invocation: its locals and position
    last,       \* the tool invocation that ended most recently
    started,    \* tool invocations started so far
    issued,     \* upstream calls issued so far
    keyProbe,   \* direct use of get_cache_key on two parameter mappings
    cacheLog,   \* direct use of get_cached / set_cache: per key, the last two calls
    probe       \* direct use of one function or code path: its inputs and results

vars ==
    <<variant, api_key, environ, cache, now, req, last, started, issued, keyProbe, cacheLog,
      probe>>

-----------------------------------------------------------------------------
(* Program constants                                                       *)

CACHE_TTL == 600

BASE_URL == "https://api.openweathermap.org/data/2.5"

GEO_URL == "http://api.openweathermap.org/geo/1.0"

-----------------------------------------------------------------------------
(* Bounds of the model                                                     *)

\* The clock is observed up to MaxPeriods * CACHE_TTL seconds.
MaxPeriods == 1

\* Tool invocations started in one behaviour.
MaxCalls == 2

\* Upstream calls issued in one behaviour.
MaxUpstream == 2

\* Parameter mappings given to get_cache_key directly hold up to this many pairs.
MaxParams == 3

-----------------------------------------------------------------------------
(* Python dicts of query parameters: insertion-ordered sequences of        *)
(* <<name, value>> pairs with distinct names. Values are JSON tokens.      *)

\* Lexicographic order of the parameter names used by the tools.
NameRank(n) ==
    CASE n = "appid" -> 0
      [] n = "city"  -> 1
      [] n = "cnt"   -> 2
      [] n = "lat"   -> 3
      [] n = "limit" -> 4
      [] n = "lon"   -> 5
      [] n = "q"     -> 6
      [] n = "units" -> 7

DictNames(d) == {d[i][1] : i \in 1..Len(d)}

\* An item assignment that is lost.
DictSetLost(d, name, value) == d

\* d[name] = value: an existing name keeps its position, a new one is appended.
DictSet(d, name, value) ==
    IF name \in DictNames(d)
    THEN [i \in 1..Len(d) |-> IF d[i][1] = name THEN <<name, value>> ELSE d[i]]
    ELSE Append(d, <<name, value>>)

RECURSIVE InsertSorted(_, _)
InsertSorted(item, s) ==
    IF s = <<>> THEN <<item>>
    ELSE IF NameRank(item[1]) < NameRank(Head(s)[1])
         THEN <<item>> \o s
         ELSE <<Head(s)>> \o InsertSorted(item, Tail(s))

RECURSIVE SortItems(_)
SortItems(d) ==
    IF d = <<>> THEN <<>> ELSE InsertSorted(Head(d), SortItems(Tail(d)))

\* A serializer that keeps the insertion order (json.dumps without sort_keys).
json_dumps_unsorted(d) == d

\* json.dumps(params, sort_keys=True): the items in the order of their names.
json_dumps_sorted(d) == SortItems(d)

\* A key derived from the endpoint alone.
get_cache_key_endpoint(endpoint, params) == [endpoint |-> endpoint, json |-> <<>>]

\* f"{endpoint}:{json.dumps(params, sort_keys=True)}"
get_cache_key(endpoint, params) ==
    [endpoint |-> endpoint, json |-> json_dumps_sorted(params)]

-----------------------------------------------------------------------------
(* Payloads: what response.json() yields. kind is the JSON shape, ver the  *)
(* content (0: the empty object {} or the empty list []; 2: JSON that the   *)
(* tools' result code cannot process, such as {"weather": []} or [null]),  *)
(* src the request the upstream answered, and from_cache whether the       *)
(* object holds the "_from_cache" item.                                    *)

NoKey == [endpoint |-> "", json |-> <<>>]

NoSrc == [endpoint |-> "", query |-> {}]

None == [kind |-> "none", src |-> NoSrc, ver |-> 0, from_cache |-> FALSE]

Payload(kind, src, ver) == [kind |-> kind, src |-> src, ver |-> ver, from_cache |-> FALSE]

\* Python truthiness of a payload: None, {} and [] are falsy.
Truthy(p) == p.kind # "none" /\ (p.ver # 0 \/ p.from_cache)

\* The exception the result code of a tool raises on the payload, "" when none:
\* data.get("weather", [{}])[0] on an empty list, item.get(...) on a non-object.
ShapingError(p) ==
    IF p.ver # 2 THEN "" ELSE IF p.kind = "list" THEN "AttributeError" ELSE "IndexError"

-----------------------------------------------------------------------------
(* The cache                                                               *)

NoEntry == [data |-> None, timestamp |-> 0]

EmptyCache == [k \in {} |-> NoEntry]

\* The freshness test of get_cached at age exactly ttl counted as fresh.
IsFreshInclusive(entry, t, ttl) == t - entry.timestamp <= ttl

\* datetime.now().timestamp() - cached["timestamp"] < CACHE_TTL
IsFresh(entry, t, ttl) == t - entry.timestamp < ttl

\* What get_cached returns.
get_cached_value(c, key, t, ttl) ==
    IF key \in DOMAIN c /\ IsFresh(c[key], t, ttl) THEN c[key].data ELSE None

\* get_cached that hides a stale entry and leaves it in the mapping.
get_cached_keep(c, key, t, ttl) == c

\* get_cached with sliding expiration: a hit renews the entry's timestamp.
get_cached_sliding(c, key, t, ttl) ==
    IF key \notin DOMAIN c THEN c
    ELSE IF IsFresh(c[key], t, ttl) THEN [c EXCEPT ![key].timestamp = t]
    ELSE [k \in DOMAIN c \ {key} |-> c[k]]

\* The mapping get_cached leaves: a stale entry is deleted.
get_cached_cache(c, key, t, ttl) ==
    IF key \in DOMAIN c /\ ~IsFresh(c[key], t, ttl)
    THEN [k \in DOMAIN c \ {key} |-> c[k]]
    ELSE c

\* set_cache that stores the payload under the wrong timestamp (0).
set_cache_epoch(c, key, data, t) ==
    [k \in DOMAIN c \cup {key} |->
        IF k = key THEN [data |-> data, timestamp |-> 0] ELSE c[k]]

\* set_cache of a one-entry cache: storing evicts every other key.
set_cache_evicting(c, key, data, t) ==
    [k \in {key} |-> [data |-> data, timestamp |-> t]]

\* set_cache that leaves an existing entry as it is (dict.setdefault).
set_cache_keep_first(c, key, data, t) ==
    [k \in DOMAIN c \cup {key} |->
        IF k = key /\ key \notin DOMAIN c THEN [data |-> data, timestamp |-> t] ELSE c[k]]

\* _cache[key] = {"data": data, "timestamp": now}
set_cache(c, key, data, t) ==
    [k \in DOMAIN c \cup {key} |->
        IF k = key THEN [data |-> data, timestamp |-> t] ELSE c[k]]

\* The ttl in force.
cache_ttl == CACHE_TTL

\* Clock readings: around every multiple of the ttl.
Times ==
    {t \in 0..(MaxPeriods * CACHE_TTL) : (t % CACHE_TTL) \in {0, CACHE_TTL - 1}}

-----------------------------------------------------------------------------
(* In-flight tool invocations                                              *)

\* Spec runs one invocation at a time.
MainSlots == {"r1"}

Slots == DOMAIN req

\* What a dispatcher or a tool hands back: a returned dict or a raised exception.
\* success is "absent" when the dict has no "success" item.
NoReturn == [how |-> "none", success |-> "absent", error |-> "", status_code |-> 0,
             data |-> None, locations |-> <<>>, tool |-> "", message |-> ""]

NoOutcome == [kind |-> "none", status |-> 0, body |-> None]

\* One dispatcher call as observed: its key, what the cache held for the key
\* when it was entered, the upstream calls it made, what the cache held for the
\* key when the upstream answered, and what it handed back.
NoDispatch ==
    [key |-> NoKey, hadFresh |-> FALSE, stored |-> None, missed |-> FALSE,
     upstream |-> 0, outcome |-> NoOutcome, heldAtResume |-> None, wrote |-> FALSE,
     hasKeyAfter |-> FALSE, othersKept |-> TRUE, ret |-> NoReturn]

NoArgs == [location |-> "", units |-> "", days |-> 0, limit |-> 0,
           latitude |-> "", longitude |-> "", locations |-> <<>>]

\* environ: what the environment held for the key when the invocation started.
IdleReq ==
    [pc |-> "idle", tool |-> "", args |-> NoArgs, environ |-> "", params |-> <<>>,
     todo |-> <<>>, comparisons |-> <<>>, cur |-> NoDispatch, dcalls |-> <<>>,
     result |-> NoReturn]

\* The value of probe in the specifications that do not use it.
Unused == [kind |-> "unused"]

NoProbe == [endpoint |-> "", p1 |-> <<>>, p2 |-> <<>>, k1 |-> NoKey, k2 |-> NoKey,
            done |-> FALSE]

-----------------------------------------------------------------------------
(* Specification SpecKey: get_cache_key applied to two mappings that hold  *)
(* the same pairs in different insertion orders.                           *)

ProbeNames == {"q", "units", "cnt", "lat"}

ProbeValues == {"\"London\"", "40"}

ProbeEndpoints == {BASE_URL \o "/weather", GEO_URL \o "/direct"}

\* Every dict of up to MaxParams pairs over ProbeNames, in every insertion order.
ProbeDicts ==
    {d \in UNION {[1..n -> ProbeNames \X ProbeValues] : n \in 0..MaxParams} :
        \A i, j \in 1..Len(d) : i # j => d[i][1] # d[j][1]}

Swap(d, i) ==
    [j \in 1..Len(d) |-> IF j = i THEN d[i + 1] ELSE IF j = i + 1 THEN d[i] ELSE d[j]]

InitKey ==
    /\ variant = "fastmcp"
    /\ api_key = ""
    /\ environ = ""
    /\ cache = EmptyCache
    /\ now = 0
    /\ probe = Unused
    /\ req = [s \in MainSlots |-> IdleReq]
    /\ last = IdleReq
    /\ started = 0
    /\ issued = 0
    /\ cacheLog = <<>>
    /\ keyProbe \in {[NoProbe EXCEPT !.endpoint = e, !.p1 = d, !.p2 = d] :
                        e \in ProbeEndpoints, d \in ProbeDicts}

\* The same pairs inserted in another order.
Reorder(i) ==
    /\ i < Len(keyProbe.p2)
    /\ keyProbe' = [keyProbe EXCEPT !.p2 = Swap(keyProbe.p2, i),
                                    !.k1 = NoKey, !.k2 = NoKey, !.done = FALSE]
    /\ UNCHANGED <<probe, variant, api_key, environ, cache, now, req, last, started, issued, cacheLog>>

ComputeKeys ==
    /\ ~keyProbe.done
    /\ keyProbe' = [keyProbe EXCEPT
                        !.k1 = get_cache_key(keyProbe.endpoint, keyProbe.p1),
                        !.k2 = get_cache_key(keyProbe.endpoint, keyProbe.p2),
                        !.done = TRUE]
    /\ UNCHANGED <<probe, variant, api_key, environ, cache, now, req, last, started, issued, cacheLog>>

NextKey == (\E i \in 1..MaxParams : Reorder(i)) \/ ComputeKeys

SpecKey == InitKey /\ [][NextKey]_vars

-----------------------------------------------------------------------------
(* Specification SpecCache: get_cached and set_cache called directly, as   *)
(* the unit tests do, with the clock advancing in between.                 *)

ProbeKeys ==
    {get_cache_key(BASE_URL \o "/weather", <<<<"q", "\"London\"">>>>),
     get_cache_key(BASE_URL \o "/weather", <<<<"q", "\"Paris\"">>>>)}

ProbePayloads ==
    {Payload("object", NoSrc, 1), Payload("object", NoSrc, 0), Payload("list", NoSrc, 1)}

\* The key whose calls are recorded; calls on the other keys go unrecorded.
LoggedKeys == {get_cache_key(BASE_URL \o "/weather", <<<<"q", "\"London\"">>>>)}

\* The last two calls on a key.
Push(log, e) == IF Len(log) < 2 THEN Append(log, e) ELSE <<log[2], e>>

Record(log, k, e) == [x \in DOMAIN log |-> IF x = k THEN Push(log[x], e) ELSE log[x]]

InitCache ==
    /\ variant = "fastmcp"
    /\ api_key = ""
    /\ environ = ""
    /\ cache = EmptyCache
    /\ now = 0
    /\ probe = Unused
    /\ req = [s \in MainSlots |-> IdleReq]
    /\ last = IdleReq
    /\ started = 0
    /\ issued = 0
    /\ cacheLog = [k \in LoggedKeys |-> <<>>]
    /\ keyProbe = NoProbe

Tick ==
    /\ \E t \in Times : t > now /\ now' = t
    /\ UNCHANGED <<probe, variant, api_key, environ, cache, req, last, started, issued, keyProbe, cacheLog>>

SetCacheOp(k, v) ==
    /\ cache' = set_cache(cache, k, v, now)
    /\ cacheLog' = Record(cacheLog, k,
            [op |-> "set", val |-> v, time |-> now, ret |-> None,
             had |-> k \in DOMAIN cache, ts |-> now, left |-> k \in DOMAIN cache',
             prev |-> IF k \in DOMAIN cache THEN cache[k] ELSE NoEntry])
    /\ UNCHANGED <<probe, variant, api_key, environ, now, req, last, started, issued, keyProbe>>

GetCachedOp(k) ==
    /\ cache' = get_cached_cache(cache, k, now, cache_ttl)
    /\ cacheLog' = Record(cacheLog, k,
            [op |-> "get",
             val |-> IF k \in DOMAIN cache THEN cache[k].data ELSE None,
             time |-> now,
             ret |-> get_cached_value(cache, k, now, cache_ttl),
             had |-> k \in DOMAIN cache,
             ts |-> IF k \in DOMAIN cache THEN cache[k].timestamp ELSE 0,
             left |-> k \in DOMAIN cache',
             prev |-> IF k \in DOMAIN cache THEN cache[k] ELSE NoEntry])
    /\ UNCHANGED <<probe, variant, api_key, environ, now, req, last, started, issued, keyProbe>>

NextCache ==
    \/ Tick
    \/ \E k \in ProbeKeys, v \in ProbePayloads : SetCacheOp(k, v)
    \/ \E k \in ProbeKeys : GetCachedOp(k)

SpecCache == InitCache /\ [][NextCache]_vars

-----------------------------------------------------------------------------
(* The dispatchers: make_weather_request (tools/common.py) and             *)
(* _make_request (server.py, server_http.py, server_mcp_sse.py)            *)

\* "http" stands for server_http.py and server_mcp_sse.py alike.
Variants == {"fastmcp", "stdio", "http"}

ApiKeys == {"", "test_key"}

\* min that gives its first argument back.
MinLeft(a, b) == a

Min(a, b) == IF a < b THEN a ELSE b

Digit(d) ==
    CASE d = 0 -> "0" [] d = 1 -> "1" [] d = 2 -> "2" [] d = 3 -> "3" [] d = 4 -> "4"
      [] d = 5 -> "5" [] d = 6 -> "6" [] d = 7 -> "7" [] d = 8 -> "8" [] d = 9 -> "9"

\* The decimal text of an integer (json.dumps and f-strings of an int).
RECURSIVE IntToken(_)
IntToken(n) ==
    IF n < 0 THEN "-" \o IntToken(-n)
    ELSE IF n < 10 THEN Digit(n)
    ELSE IntToken(n \div 10) \o Digit(n % 10)

\* json.dumps of a str.
StrToken(x) == "\"" \o x \o "\""

\* What the upstream saw: the endpoint and the query without the appid.
RequestOf(endpoint, params) ==
    [endpoint |-> endpoint,
     query |-> {params[i] : i \in {j \in 1..Len(params) : params[j][1] # "appid"}}]

Returned(success, error, code, data) ==
    [how |-> "returned", success |-> success, error |-> error, status_code |-> code,
     data |-> data, locations |-> <<>>, tool |-> "", message |-> ""]

Raised(exc) ==
    [how |-> "raised", success |-> "absent", error |-> exc, status_code |-> 0,
     data |-> None, locations |-> <<>>, tool |-> "", message |-> ""]

\* The dict returned when no API key is configured.
ConfigError(v) ==
    IF v = "fastmcp"
    THEN Returned("false",
            "API key not configured. Please set OPENWEATHER_API_KEY environment variable.",
            0, None)
    ELSE Returned("absent", "API key not configured", 0, None)

\* A dispatcher that never takes the key for missing.
KeyMissingNever(ak) == FALSE

\* if not API_KEY:
KeyMissing(ak) == ak = ""

\* cached["_from_cache"] = True: the stored dict itself gets the item.
MarkFromCache(c, key) == [c EXCEPT ![key].data.from_cache = TRUE]

\* if cached:
Hits(p) == Truthy(p)

\* cached = get_cached(cache_key)
Cached(c, key, t, ttl) == get_cached_value(c, key, t, ttl)

OthersKept(c1, c2, key) ==
    /\ DOMAIN c1 \ {key} = DOMAIN c2 \ {key}
    /\ \A k \in DOMAIN c1 \ {key} : c1[k] = c2[k]

\* The dispatcher from its entry to its first return or to the upstream call.
\* kind "done": it handed d.ret back; kind "await": client.get is in flight.
DispatchEnter(v, ak, c, t, endpoint, params) ==
    LET key == get_cache_key(endpoint, params)
        cached == Cached(c, key, t, cache_ttl)
        c1 == get_cached_cache(c, key, t, cache_ttl)
        seen == [NoDispatch EXCEPT
                    !.key = key,
                    !.hadFresh = key \in DOMAIN c /\ t - c[key].timestamp < CACHE_TTL,
                    !.stored = IF key \in DOMAIN c THEN c[key].data ELSE None]
    IN  IF KeyMissing(ak)
        THEN [kind |-> "done", c |-> c, params |-> params,
              d |-> [seen EXCEPT !.ret = ConfigError(v),
                                 !.hasKeyAfter = key \in DOMAIN c]]
        ELSE IF Hits(cached)
        THEN IF cached.kind = "list"
             THEN \* item assignment on a list: TypeError
                  [kind |-> "done", c |-> c1, params |-> params,
                   d |-> [seen EXCEPT !.ret = Raised("TypeError"),
                                      !.hasKeyAfter = key \in DOMAIN c1,
                                      !.othersKept = OthersKept(c, c1, key)]]
             ELSE LET c2 == MarkFromCache(c1, key)
                  IN  [kind |-> "done", c |-> c2, params |-> params,
                       d |-> [seen EXCEPT
                                !.ret = Returned(IF v = "fastmcp" THEN "true" ELSE "absent",
                                                 "", 0, c2[key].data),
                                !.hasKeyAfter = key \in DOMAIN c2,
                                !.othersKept = OthersKept(c, c2, key)]]
        ELSE [kind |-> "await", c |-> c1, params |-> DictSet(params, "appid", ak),
              d |-> [seen EXCEPT !.missed = (cached = None),
                                 !.upstream = 1,
                                 !.hasKeyAfter = key \in DOMAIN c1,
                                 !.othersKept = OthersKept(c, c1, key)]]

\* Upstream outcomes: an HTTP response (its body parsed by response.json(), None
\* when the body is no JSON), a timeout or another network failure.
Statuses == {200, 401, 404, 500}

Versions == {0, 1, 2}

BodyKind(endpoint) == IF endpoint = GEO_URL \o "/direct" THEN "list" ELSE "object"

Outcomes(endpoint, params) ==
    {[kind |-> "response", status |-> 200,
      body |-> Payload(BodyKind(endpoint), RequestOf(endpoint, params), n)] : n \in Versions}
    \cup {[kind |-> "response", status |-> 203,
            body |-> Payload(BodyKind(endpoint), RequestOf(endpoint, params), 1)]}
    \cup {[kind |-> "response", status |-> st, body |-> None] : st \in Statuses}
    \cup {[kind |-> k, status |-> 0, body |-> None] : k \in {"timeout", "network"}}

\* A dispatcher that stores whatever came back, failures included.
StoreOnSuccessAlways(v, c, key, o, t) == set_cache(c, key, o.body, t)

\* A dispatcher that stores the payload only once the tool's result code can
\* process it.
StoreIfShapes(v, c, key, o, t) ==
    IF /\ o.kind = "response"
       /\ IF v = "fastmcp" THEN o.status = 200 ELSE o.status \in 200..299
       /\ o.body # None
       /\ ShapingError(o.body) = ""
    THEN set_cache(c, key, o.body, t)
    ELSE c

\* A dispatcher that stores only when the key has no entry (first write wins).
StoreIfAbsent(v, c, key, o, t) ==
    IF /\ o.kind = "response"
       /\ IF v = "fastmcp" THEN o.status = 200 ELSE o.status \in 200..299
       /\ o.body # None
       /\ key \notin DOMAIN c
    THEN set_cache(c, key, o.body, t)
    ELSE c

\* A module-level dispatcher that stores nothing, next to class servers that do.
StoreClassOnly(v, c, key, o, t) ==
    IF v # "fastmcp" /\ o.kind = "response" /\ o.status \in 200..299 /\ o.body # None
    THEN set_cache(c, key, o.body, t)
    ELSE c

\* set_cache(cache_key, data): reached after status 200 (make_weather_request) or
\* after raise_for_status passed (_make_request), once response.json() parsed.
StoreOnSuccess(v, c, key, o, t) ==
    IF /\ o.kind = "response"
       /\ IF v = "fastmcp" THEN o.status = 200 ELSE o.status \in 200..299
       /\ o.body # None
    THEN set_cache(c, key, o.body, t)
    ELSE c

\* A status ladder that takes every 2xx response for a success.
CommonReturnAny2xx(o) ==
    CASE o.kind = "timeout" -> Returned("false", "Request timed out", 0, None)
      [] o.kind = "network" -> Returned("false", "Request failed: ", 0, None)
      [] o.kind = "response" /\ o.status \in 200..299 /\ o.body = None
            -> Returned("false", "Unexpected error: ", 0, None)
      [] o.kind = "response" /\ o.status \in 200..299 /\ o.body # None
            -> Returned("true", "", 0, o.body)
      [] o.kind = "response" /\ o.status = 401
            -> Returned("false", "Invalid API key", 401, None)
      [] o.kind = "response" /\ o.status = 404
            -> Returned("false", "Location not found", 404, None)
      [] OTHER -> Returned("false", "API error: " \o IntToken(o.status), o.status, None)

\* make_weather_request after client.get: the status ladder and the handlers.
CommonReturn(o) ==
    CASE o.kind = "timeout" -> Returned("false", "Request timed out", 0, None)
      [] o.kind = "network" -> Returned("false", "Request failed: ", 0, None)
      [] o.kind = "response" /\ o.status = 200 /\ o.body = None
            -> Returned("false", "Unexpected error: ", 0, None)
      [] o.kind = "response" /\ o.status = 200 /\ o.body # None
            -> Returned("true", "", 0, o.body)
      [] o.kind = "response" /\ o.status = 401
            -> Returned("false", "Invalid API key", 401, None)
      [] o.kind = "response" /\ o.status = 404
            -> Returned("false", "Location not found", 404, None)
      [] OTHER -> Returned("false", "API error: " \o IntToken(o.status), o.status, None)

\* _make_request after client.get: raise_for_status, json, return data.
ClassReturn(o) ==
    CASE o.kind = "timeout" -> Raised("TimeoutException")
      [] o.kind = "network" -> Raised("RequestError")
      [] o.kind = "response" /\ ~(o.status \in 200..299) -> Raised("HTTPStatusError")
      [] o.kind = "response" /\ o.status \in 200..299 /\ o.body = None
            -> Raised("JSONDecodeError")
      [] OTHER -> Returned("absent", "", 0, o.body)

\* A dispatcher that asks the upstream once more after a failure.
AttemptsWithRetry(n, o) ==
    IF o.kind # "response" \/ o.status \notin 200..299 THEN n + 1 ELSE n

\* The client.get calls made once outcome o arrived: the first one was the last.
Attempts(n, o) == n

\* The dispatcher from the upstream outcome to its return.
DispatchResume(v, c, t, d, o) ==
    LET c1 == StoreOnSuccess(v, c, d.key, o, t)
    IN  [c |-> c1,
         d |-> [d EXCEPT !.ret = IF v = "fastmcp" THEN CommonReturn(o) ELSE ClassReturn(o),
                         !.outcome = o,
                         !.upstream = Attempts(d.upstream, o),
                         !.heldAtResume = IF d.key \in DOMAIN c THEN c[d.key].data ELSE None,
                         !.wrote = (c1 # c),
                         !.hasKeyAfter = d.key \in DOMAIN c1,
                         !.othersKept = d.othersKept /\ OthersKept(c, c1, d.key)]]

-----------------------------------------------------------------------------
(* The tools                                                               *)

\* Locations asked of get_current_weather; compare_weather also asks for Paris.
Locations == {"London"}

DefaultArgs ==
    [location |-> "London", units |-> "metric", days |-> 5, limit |-> 5,
     latitude |-> "51.5", longitude |-> "-0.12", locations |-> <<>>]

\* Location lists given to compare_weather: 1, 2, 5 and 6 entries.
CompareLists ==
    {<<"London">>, <<"London", "Paris">>,
     <<"London", "Paris", "London", "Paris", "London">>,
     <<"London", "Paris", "London", "Paris", "London", "Paris">>}

FetchTools ==
    {"get_current_weather", "get_forecast", "search_location",
     "get_weather_by_coordinates", "get_air_quality"}

\* The tools invoked only on a server without a key.
KeylessOnly ==
    {"get_forecast", "get_weather_by_coordinates", "get_air_quality",
     "get_weather_alerts", "no_such_tool"}

\* The names call_tool dispatches on; "no_such_tool" stands for any other name.
ToolNames(v) ==
    FetchTools \cup {"compare_weather"}
    \cup (IF v = "fastmcp" THEN {} ELSE {"get_weather_alerts", "no_such_tool"})

\* The invocations the model draws from. The five single-request tools run the
\* same dispatcher code and differ in endpoint, params and payload shape: all
\* of them are invoked on a server without an API key; on a server with one,
\* get_current_weather (object payload) and search_location (list payload).
\* The tools that never reach the dispatcher and the five-location comparison
\* are likewise invoked on a server without a key.
ToolCalls(v, ak) ==
    {[tool |-> "get_current_weather", args |-> [DefaultArgs EXCEPT !.location = l]] :
        l \in Locations}
    \cup {[tool |-> "compare_weather", args |-> [DefaultArgs EXCEPT !.locations = ls]] :
            ls \in (IF ak = "" THEN CompareLists
                               ELSE {x \in CompareLists : Len(x) # 5})}
    \cup {[tool |-> n, args |-> DefaultArgs] :
            n \in (IF ak = "" THEN ToolNames(v) ELSE ToolNames(v) \ KeylessOnly)
                  \ {"get_current_weather", "compare_weather"}}

ToolEndpoint(tool) ==
    CASE tool = "get_forecast" -> BASE_URL \o "/forecast"
      [] tool = "search_location" -> GEO_URL \o "/direct"
      [] tool = "get_air_quality" -> BASE_URL \o "/air_pollution"
      [] OTHER -> BASE_URL \o "/weather"

\* The number of 3-hour intervals get_forecast asks for: the FastMCP tool caps
\* the days at 5, the class servers do not.
ForecastCnt(v, days) == IF v = "fastmcp" THEN Min(days, 5) * 8 ELSE days * 8

\* The params dict each tool builds, in the order of its dict literal.
ToolParams(v, tool, a) ==
    CASE tool = "get_forecast" ->
            <<<<"q", StrToken(a.location)>>, <<"units", StrToken(a.units)>>,
              <<"cnt", IntToken(ForecastCnt(v, a.days))>>>>
      [] tool = "search_location" ->
            <<<<"q", StrToken(a.location)>>,
              <<"limit", IntToken(IF v = "fastmcp" THEN Min(a.limit, 10) ELSE a.limit)>>>>
      [] tool = "get_weather_by_coordinates" ->
            <<<<"lat", a.latitude>>, <<"lon", a.longitude>>, <<"units", StrToken(a.units)>>>>
      [] tool = "get_air_quality" ->
            <<<<"lat", a.latitude>>, <<"lon", a.longitude>>>>
      [] OTHER ->
            <<<<"q", StrToken(a.location)>>, <<"units", StrToken(a.units)>>>>

\* One element of the "locations" list of a comparison.
Entry(location, ok, error, data) ==
    [location |-> location, ok |-> ok, error |-> error, data |-> data]

\* The tool is over: r.result is what it hands to the transport layer.
Finish(r, result) == [r EXCEPT !.pc = "done", !.result = result]

\* The dispatcher call r.cur is over; file it.
Filed(r) == [r EXCEPT !.dcalls = Append(@, r.cur)]

\* A call_tool without the handler: what the tool raises leaves call_tool.
CallToolPropagate(v, name, ret) == ret

\* A paid-tier tool that reports an error instead of its message.
AlertsUnavailable == Returned("absent", "Weather alerts are not available", 0, None)

\* call_tool of the class servers: whatever the tool raises becomes an error
\* dict with str(e) and the tool's name (and, in server.py, a message).
CallToolCatch(v, name, ret) ==
    IF v # "fastmcp" /\ ret.how = "raised"
    THEN [Returned("absent", ret.error, 0, None)
            EXCEPT !.tool = name,
                   !.message = IF v = "stdio"
                               THEN "Error executing " \o name \o ": " \o ret.error
                               ELSE ""]
    ELSE ret

\* A single-location tool after its dispatcher call returned or raised r.cur.ret.
AfterFetch(v, r) ==
    LET ret == r.cur.ret
    IN  IF ret.how = "raised" THEN Finish(Filed(r), CallToolCatch(v, r.tool, ret))
        ELSE IF v = "fastmcp" /\ ret.success # "true" THEN Finish(Filed(r), ret)
        ELSE IF v # "fastmcp" /\ ret.error # "" THEN Finish(Filed(r), ret)
        ELSE IF ShapingError(ret.data) # ""
        THEN Finish(Filed(r), CallToolCatch(v, r.tool, Raised(ShapingError(ret.data))))
        ELSE Finish(Filed(r), Returned(IF v = "fastmcp" THEN "true" ELSE "absent",
                                       "", 0, ret.data))

\* compare_weather after the dispatcher call for Head(r.todo) ended with r.cur.ret.
AfterCompareFetch(v, r) ==
    LET ret == r.cur.ret
        loc == Head(r.todo)
        next == [Filed(r) EXCEPT !.todo = Tail(r.todo)]
    IN  IF v = "fastmcp"
        THEN IF ret.how = "raised" THEN Finish(Filed(r), ret)
             ELSE IF ret.success = "true"
             THEN IF ShapingError(ret.data) # ""
                  THEN Finish(Filed(r), Raised(ShapingError(ret.data)))
                  ELSE [next EXCEPT !.comparisons = Append(@, Entry(loc, TRUE, "", ret.data))]
             ELSE [next EXCEPT !.comparisons = Append(@, Entry(loc, FALSE, ret.error, None))]
        ELSE IF ret.how = "raised" \/ ret.error # ""
             THEN [next EXCEPT !.comparisons = Append(@, Entry(loc, FALSE, ret.error, None))]
             ELSE IF ShapingError(ret.data) # ""
             THEN [next EXCEPT !.comparisons =
                        Append(@, Entry(loc, FALSE, ShapingError(ret.data), None))]
             ELSE [next EXCEPT !.comparisons = Append(@, Entry(loc, TRUE, "", ret.data))]

\* The dict compare_weather returns once every location is done.
CompareResult(v, r) ==
    [Returned(IF v = "fastmcp" THEN "true" ELSE "absent", "", 0, None)
        EXCEPT !.locations = r.comparisons]

\* compare_weather's loop, run until client.get is awaited or the tool ends.
RECURSIVE RunCompare(_, _, _, _, _)
RunCompare(v, ak, t, r, c) ==
    IF r.pc = "done" THEN [r |-> r, c |-> c]
    ELSE IF r.todo = <<>> THEN [r |-> Finish(r, CompareResult(v, r)), c |-> c]
    ELSE LET params == ToolParams(v, "get_current_weather",
                                  [r.args EXCEPT !.location = Head(r.todo)])
             e == DispatchEnter(v, ak, c, t, ToolEndpoint("get_current_weather"), params)
         IN  IF e.kind = "await"
             THEN [r |-> [r EXCEPT !.pc = "await", !.cur = e.d, !.params = e.params],
                   c |-> e.c]
             ELSE RunCompare(v, ak, t, AfterCompareFetch(v, [r EXCEPT !.cur = e.d]), e.c)

\* The size check of compare_weather: the error dict, or NoReturn when accepted.
CompareRejects(v, locations) ==
    IF v # "fastmcp" THEN NoReturn
    ELSE IF Len(locations) < 2
    THEN Returned("false", "Please provide at least 2 locations to compare", 0, None)
    ELSE IF Len(locations) > 5
    THEN Returned("false", "Maximum 5 locations allowed for comparison", 0, None)
    ELSE NoReturn

\* _get_weather_alerts
AlertsResult ==
    [Returned("absent", "", 0, None)
        EXCEPT !.message = "Weather alerts require OpenWeatherMap One Call API 3.0 (paid tier)"]

\* A tool invocation from its entry to its first await or its end.
StartTool(v, ak, t, call, c) ==
    LET r0 == [IdleReq EXCEPT !.pc = "run", !.tool = call.tool, !.args = call.args]
    IN  CASE call.tool = "compare_weather" ->
                IF CompareRejects(v, call.args.locations) # NoReturn
                THEN [r |-> Finish(r0, CompareRejects(v, call.args.locations)), c |-> c]
                ELSE RunCompare(v, ak, t, [r0 EXCEPT !.todo = call.args.locations], c)
          [] call.tool = "get_weather_alerts" /\ v = "stdio" ->
                [r |-> Finish(r0, AlertsResult), c |-> c]
          [] call.tool \in FetchTools ->
                LET e == DispatchEnter(v, ak, c, t, ToolEndpoint(call.tool),
                                       ToolParams(v, call.tool, call.args))
                IN  IF e.kind = "await"
                    THEN [r |-> [r0 EXCEPT !.pc = "await", !.cur = e.d, !.params = e.params],
                          c |-> e.c]
                    ELSE [r |-> AfterFetch(v, [r0 EXCEPT !.cur = e.d]), c |-> e.c]
          [] OTHER ->
                \* raise ValueError / HTTPException, caught by call_tool
                [r |-> Finish(r0, CallToolCatch(v, call.tool,
                                                Raised("Unknown tool: " \o call.tool))),
                 c |-> c]

\* A tool invocation from the upstream outcome o to its next await or its end.
ResumeTool(v, ak, t, r, c, o) ==
    LET x == DispatchResume(v, c, t, r.cur, o)
        r1 == [r EXCEPT !.pc = "run", !.cur = x.d]
    IN  IF r.tool = "compare_weather"
        THEN RunCompare(v, ak, t, AfterCompareFetch(v, r1), x.c)
        ELSE [r |-> AfterFetch(v, r1), c |-> x.c]

-----------------------------------------------------------------------------
(* Specification Spec: tool invocations on one server process              *)

Init ==
    /\ variant \in Variants
    /\ api_key \in ApiKeys
    /\ environ = api_key
    /\ cache = EmptyCache
    /\ now = 0
    /\ probe = Unused
    /\ req = [s \in MainSlots |-> IdleReq]
    /\ last = IdleReq
    /\ started = 0
    /\ issued = 0
    /\ keyProbe = NoProbe
    /\ cacheLog = <<>>

\* Where a machine state <<r, c>> leaves slot s: in flight, or ended and in last.
Land(s, m) ==
    /\ cache' = m.c
    /\ IF m.r.pc = "await"
       THEN issued < MaxUpstream /\ issued' = issued + 1
       ELSE UNCHANGED issued
    /\ IF m.r.pc = "done"
       THEN req' = [req EXCEPT ![s] = IdleReq] /\ last' = m.r
       ELSE req' = [req EXCEPT ![s] = m.r] /\ UNCHANGED last

\* A dispatcher that looks the key up in the environment on every request.
KeyFromEnviron == environ

\* The key the dispatcher tests and sends: the global read when the module was
\* imported (self.api_key, read when the server object was built).
KeyInForce == api_key

\* The invocation in m, noted with what the environment holds as it starts.
Stamp(m) == [m EXCEPT !.r.environ = environ]

\* The transport layer invokes a tool.
Call(s, call) ==
    /\ req[s].pc = "idle"
    /\ started < MaxCalls
    /\ started' = started + 1
    /\ Land(s, Stamp(StartTool(variant, KeyInForce, now, call, cache)))
    /\ UNCHANGED <<probe, variant, api_key, environ, now, keyProbe, cacheLog>>

\* The upstream answers the client.get of slot s, or the call fails.
Respond(s, o) ==
    /\ req[s].pc = "await"
    /\ Land(s, ResumeTool(variant, KeyInForce, now, req[s], cache, o))
    /\ UNCHANGED <<probe, variant, api_key, environ, now, started, keyProbe, cacheLog>>

Next ==
    \/ \E s \in Slots : \E call \in ToolCalls(variant, api_key) : Call(s, call)
    \/ \E s \in Slots :
          \E o \in Outcomes(ToolEndpoint(IF req[s].tool = "compare_weather"
                                         THEN "get_current_weather" ELSE req[s].tool),
                            req[s].params) : Respond(s, o)
    \/ Tick

Spec == Init /\ [][Next]_vars

-----------------------------------------------------------------------------
(* Specification SpecEnv: a server started without an API key, whose       *)
(* environment is changed while it runs.                                   *)

InitEnv ==
    /\ variant \in Variants
    /\ api_key = ""
    /\ environ = api_key
    /\ cache = EmptyCache
    /\ now = 0
    /\ probe = Unused
    /\ req = [s \in MainSlots |-> IdleReq]
    /\ last = IdleReq
    /\ started = 0
    /\ issued = 0
    /\ keyProbe = NoProbe
    /\ cacheLog = <<>>

\* os.environ["OPENWEATHER_API_KEY"] is set, or removed, in the running process.
SetEnv(k) ==
    /\ environ # k
    /\ environ' = k
    /\ UNCHANGED <<probe, variant, api_key, cache, now, req, last, started, issued, keyProbe, cacheLog>>

NextEnv ==
    \/ \E s \in Slots : \E call \in ToolCalls(variant, api_key) : Call(s, call)
    \/ \E k \in ApiKeys : SetEnv(k)
    \/ Tick

SpecEnv == InitEnv /\ [][NextEnv]_vars

-----------------------------------------------------------------------------
(* Specification SpecRace: two tool invocations in flight on one event     *)
(* loop; each runs without interruption between two awaits.                *)

RaceSlots == {"r1", "r2"}

RaceCalls ==
    {[tool |-> n, args |-> DefaultArgs] : n \in {"get_current_weather", "search_location"}}

InitRace ==
    /\ variant \in Variants
    /\ api_key = "test_key"
    /\ environ = api_key
    /\ cache = EmptyCache
    /\ now = 0
    /\ probe = Unused
    /\ req = [s \in RaceSlots |-> IdleReq]
    /\ last = IdleReq
    /\ started = 0
    /\ issued = 0
    /\ keyProbe = NoProbe
    /\ cacheLog = <<>>

NextRace ==
    \/ \E s \in Slots : \E call \in RaceCalls : Call(s, call)
    \/ \E s \in Slots :
          \E o \in Outcomes(ToolEndpoint(req[s].tool), req[s].params) : Respond(s, o)
    \/ Tick

SpecRace == InitRace /\ [][NextRace]_vars

-----------------------------------------------------------------------------
(* Claims about the key derivation and the cache (SpecKey, SpecCache)      *)

\* Calls i and i+1 recorded on key k.
Consecutive(k, i) == i \in 1..(Len(cacheLog[k]) - 1)

\* A recorded get_cached call that found an entry of age >= ttl.
StaleGet(e) == e.op = "get" /\ e.had /\ e.time - e.ts >= CACHE_TTL

\* C1: two parameter mappings holding the same key/value pairs in different
\* insertion orders get the same cache key for the same endpoint.
C1_KeyCanonical ==
    keyProbe.done => keyProbe.k1 = keyProbe.k2

\* C1 witness: keys were computed for two mappings that differ in order, and
\* the key lists the pairs in name order, not in the order of either mapping.
C1_Witness ==
    /\ keyProbe.done
    /\ keyProbe.p1 # keyProbe.p2
    /\ Len(keyProbe.p1) = 3
    /\ keyProbe.k1.json # keyProbe.p1
    /\ keyProbe.k1.json # keyProbe.p2

\* C3: set_cache(k, v) followed, with no other call on k in between, by
\* get_cached(k) less than ttl seconds later returns exactly v.
C3_PutGetRoundTrip ==
    \A k \in DOMAIN cacheLog : \A i \in 1..2 :
        (/\ Consecutive(k, i)
         /\ cacheLog[k][i].op = "set"
         /\ cacheLog[k][i + 1].op = "get"
         /\ cacheLog[k][i + 1].time - cacheLog[k][i].time < CACHE_TTL)
        => cacheLog[k][i + 1].ret = cacheLog[k][i].val

\* C3 witness: a payload stored at a time other than 0 was read back within
\* the ttl, while the mapping held another key as well.
C3_Witness ==
    \E k \in DOMAIN cacheLog :
        /\ Len(cacheLog[k]) = 2
        /\ cacheLog[k][1].op = "set"
        /\ cacheLog[k][1].time > 0
        /\ cacheLog[k][2].op = "get"
        /\ cacheLog[k][2].time > cacheLog[k][1].time
        /\ cacheLog[k][2].time - cacheLog[k][1].time < CACHE_TTL
        /\ cacheLog[k][2].ret = cacheLog[k][1].val
        /\ \E k2 \in DOMAIN cache : k2 # k

\* C4: get_cached(k) on an entry of age >= ttl returns None and removes k
\* from the mapping; a following get_cached(k), with no set_cache(k) in
\* between, finds no entry and returns None, and k stays out of the mapping.
C4_ExpiryPurges ==
    \A k \in DOMAIN cacheLog :
        /\ \A i \in 1..Len(cacheLog[k]) :
              StaleGet(cacheLog[k][i])
              => cacheLog[k][i].ret = None /\ ~cacheLog[k][i].left
        /\ \A i \in 1..2 :
              (Consecutive(k, i) /\ StaleGet(cacheLog[k][i])
               /\ cacheLog[k][i + 1].op = "get")
              => /\ cacheLog[k][i + 1].ret = None
                 /\ ~cacheLog[k][i + 1].had
                 /\ k \notin DOMAIN cache

\* C4 witness: a stale read was followed by a second read of the same key.
C4_Witness ==
    \E k \in DOMAIN cacheLog :
        /\ Len(cacheLog[k]) = 2
        /\ StaleGet(cacheLog[k][1])
        /\ cacheLog[k][2].op = "get"
        /\ cacheLog[k][2].ret = None
        /\ k \notin DOMAIN cache

\* C5: get_cached(k) returns the stored payload if and only if an entry for
\* k exists and now - storedAt < ttl; otherwise it returns None. At age
\* exactly ttl the entry is stale, at age ttl - 1 it is returned.
C5_StrictFreshness ==
    \A k \in DOMAIN cacheLog : \A i \in 1..Len(cacheLog[k]) :
        cacheLog[k][i].op = "get"
        => cacheLog[k][i].ret =
              (IF cacheLog[k][i].had /\ cacheLog[k][i].time - cacheLog[k][i].ts < CACHE_TTL
               THEN cacheLog[k][i].val ELSE None)

\* C5 witness: one read at age ttl - 1 returned the payload and the next, at
\* age exactly ttl, returned None.
C5_Witness ==
    \E k \in DOMAIN cacheLog :
        /\ Len(cacheLog[k]) = 2
        /\ cacheLog[k][1].op = "get" /\ cacheLog[k][1].had
        /\ cacheLog[k][1].time - cacheLog[k][1].ts = CACHE_TTL - 1
        /\ cacheLog[k][1].ret = cacheLog[k][1].val
        /\ cacheLog[k][1].ret # None
        /\ cacheLog[k][2].op = "get" /\ cacheLog[k][2].had
        /\ cacheLog[k][2].time - cacheLog[k][2].ts = CACHE_TTL
        /\ cacheLog[k][2].ret = None

-----------------------------------------------------------------------------
(* Claims about the dispatchers and the tools (Spec)                       *)

SeqSet(q) == {q[i] : i \in 1..Len(q)}

\* The dispatcher calls that have returned or raised.
Completed == SeqSet(last.dcalls) \cup UNION {SeqSet(req[s].dcalls) : s \in Slots}

\* The dispatcher calls waiting for the upstream.
InFlight == {req[s].cur : s \in {x \in Slots : req[x].pc = "await"}}

\* The upstream call failed: timeout, network error, non-2xx status, or a body
\* that is no JSON.
UpstreamFailed(o) ==
    \/ o.kind \in {"timeout", "network"}
    \/ o.kind = "response" /\ (o.status \notin 200..299 \/ o.body = None)

IsConfigError(e) ==
    e \in {"API key not configured. Please set OPENWEATHER_API_KEY environment variable.",
           "API key not configured"}

SixTools == FetchTools \cup {"compare_weather"}

\* C2 (as claimed): a dispatcher call entered while the cache holds an entry for
\* its fingerprint with now - storedAt < ttl makes no upstream call, whatever
\* payload (object or list, empty or not) the entry holds.
C2_NoUpstreamWhenFresh ==
    \A d \in Completed \cup InFlight : d.hadFresh => d.upstream = 0

C7_NoKeyAllFail ==
    api_key = "" =>
        /\ cache = EmptyCache
        /\ issued = 0
        /\ (last.pc = "done" /\ last.tool \in SixTools)
           => /\ last.result.how = "returned"
              /\ last.result.success = "false"
              /\ IsConfigError(last.result.error)

\* C7 (amended): without an API key no upstream call is made and the cache stays
\* empty; each single-request tool returns the dispatcher's 'API key not
\* configured' dict (success false in the FastMCP tools, no "success" item in
\* the class servers); compare_weather reports that error once per location
\* inside "locations" while its own result says success true (FastMCP, 2 to 5
\* locations) or has no "success" item (class servers); the FastMCP
\* compare_weather with fewer than 2 or more than 5 locations returns its size
\* error instead.
C7_NoKeyAmended ==
    api_key = "" =>
        /\ cache = EmptyCache
        /\ issued = 0
        /\ \A d \in Completed : d.upstream = 0 /\ IsConfigError(d.ret.error)
        /\ (last.pc = "done" /\ last.tool \in FetchTools)
           => /\ last.result.how = "returned"
              /\ last.result.success = (IF variant = "fastmcp" THEN "false" ELSE "absent")
              /\ IsConfigError(last.result.error)
              /\ Len(last.dcalls) = 1
        /\ (last.pc = "done" /\ last.tool = "compare_weather")
           => /\ last.result.how = "returned"
              /\ IF variant = "fastmcp" /\ Len(last.args.locations) \notin 2..5
                 THEN /\ last.result.success = "false"
                      /\ ~IsConfigError(last.result.error)
                      /\ last.result.error # ""
                      /\ last.dcalls = <<>>
                 ELSE /\ last.result.success =
                            (IF variant = "fastmcp" THEN "true" ELSE "absent")
                      /\ last.result.error = ""
                      /\ Len(last.result.locations) = Len(last.args.locations)
                      /\ \A i \in 1..Len(last.result.locations) :
                            /\ ~last.result.locations[i].ok
                            /\ IsConfigError(last.result.locations[i].error)

\* C7 witness: without a key, the FastMCP compare_weather returned success true
\* for five locations, each reported as not configured.
C7_Witness ==
    /\ api_key = ""
    /\ variant = "fastmcp"
    /\ last.pc = "done"
    /\ last.tool = "compare_weather"
    /\ last.result.success = "true"
    /\ Len(last.result.locations) = 5
    /\ started = 2

\* C8 (as claimed): every tool invocation, in every server variant, ends by
\* returning a result; no exception leaves the tool.
C8_NeverRaised ==
    last.pc = "done" => last.result.how = "returned"

\* C9 (as claimed): a dispatcher call that finds a fresh entry returns the
\* stored payload with the from-cache marker set and nothing else changed; what
\* a miss returns carries no marker.
C9_HitMarked ==
    \A d \in Completed :
        /\ d.hadFresh
           => /\ d.ret.how = "returned"
              /\ d.ret.data = [d.stored EXCEPT !.from_cache = TRUE]
        /\ (d.upstream = 1 /\ d.ret.data # None) => ~d.ret.data.from_cache

\* C10 (as claimed): in every variant, compare_weather with fewer than 2 or more
\* than 5 locations is rejected with success false, before any upstream call
\* and without a cache write.
C10_SizeCheck ==
    /\ (/\ last.pc = "done"
        /\ last.tool = "compare_weather"
        /\ Len(last.args.locations) \notin 2..5)
       => /\ last.result.success = "false"
          /\ \A d \in SeqSet(last.dcalls) : d.upstream = 0 /\ ~d.wrote
    /\ \A s \in Slots :
          (req[s].tool = "compare_weather" /\ Len(req[s].args.locations) \notin 2..5)
          => req[s].pc # "await"

-----------------------------------------------------------------------------
(* Claims about upstream calls, stores and races                           *)

\* C11: a dispatcher call that misses the cache makes exactly one upstream call,
\* whether it succeeds or fails; no dispatcher call makes more than one; an
\* invocation of a single-location tool runs one dispatcher call and so makes
\* at most one upstream call.
C11_OneUpstreamPerMiss ==
    /\ \A d \in Completed : d.upstream <= 1 /\ (d.missed => d.upstream = 1)
    /\ \A d \in InFlight : d.upstream = 1
    /\ (last.pc = "done" /\ last.tool \in FetchTools)
       => /\ Len(last.dcalls) = 1
          /\ last.dcalls[1].upstream <= 1
          /\ (started = 1 /\ \A s \in Slots : req[s].pc = "idle")
             => issued = last.dcalls[1].upstream

\* C11 witness: the only invocation so far, of a single-location tool, missed
\* the cache, got a timeout from the upstream and ended with one call issued.
C11_Witness ==
    /\ started = 1
    /\ last.pc = "done"
    /\ last.tool = "search_location"
    /\ last.cur.missed
    /\ last.cur.outcome.kind = "timeout"
    /\ last.cur.upstream = 1
    /\ issued = 1

\* C12: set_cache(k, v1) followed by set_cache(k, v2) leaves one entry for k,
\* holding v2 with the time of the second store; get_cached(k) within ttl of
\* the second store returns v2.
C12_LastWriteWins ==
    \A k \in DOMAIN cacheLog :
        /\ (cacheLog[k] # <<>> /\ cacheLog[k][Len(cacheLog[k])].op = "set")
           => /\ k \in DOMAIN cache
              /\ cache[k] = [data |-> cacheLog[k][Len(cacheLog[k])].val,
                             timestamp |-> cacheLog[k][Len(cacheLog[k])].time]
        /\ (/\ Len(cacheLog[k]) = 2
            /\ cacheLog[k][1].op = "set"
            /\ cacheLog[k][1].had
            /\ cacheLog[k][2].op = "get"
            /\ cacheLog[k][2].time - cacheLog[k][1].time < CACHE_TTL)
           => /\ cacheLog[k][2].ret = cacheLog[k][1].val
              /\ cacheLog[k][2].prev =
                    [data |-> cacheLog[k][1].val, timestamp |-> cacheLog[k][1].time]

\* C12 witness: a second, different payload was stored over an earlier entry
\* of the key, and a read returned the second at a time that is within ttl of
\* the second store and not of the first.
C12_Witness ==
    \E k \in DOMAIN cacheLog :
        /\ Len(cacheLog[k]) = 2
        /\ cacheLog[k][1].op = "set"
        /\ cacheLog[k][1].had
        /\ cacheLog[k][1].prev.data \notin {None, cacheLog[k][1].val}
        /\ cacheLog[k][2].op = "get"
        /\ cacheLog[k][2].time - cacheLog[k][1].prev.timestamp >= CACHE_TTL
        /\ cacheLog[k][2].time - cacheLog[k][1].time < CACHE_TTL
        /\ cacheLog[k][2].ret = cacheLog[k][1].val

\* The dispatcher stored the body of outcome o.
Stores(v, o) ==
    /\ o.kind = "response"
    /\ o.body # None
    /\ IF v = "fastmcp" THEN o.status = 200 ELSE o.status \in 200..299

\* The entries whose key names the request of key k.
EntriesFor(k) ==
    {j \in DOMAIN cache : j.endpoint = k.endpoint /\ SeqSet(j.json) = SeqSet(k.json)}

\* C13: requests on one fingerprint may be in flight together, both having
\* missed and both calling the upstream. Whenever no request is in flight and
\* the one that ended last had stored its payload, the cache holds exactly one
\* entry for the fingerprint and it is that payload, whatever an earlier
\* request had stored there.
C13_RaceLastStoreWins ==
    (/\ \A s \in Slots : req[s].pc = "idle"
     /\ last.pc = "done"
     /\ last.cur.upstream = 1
     /\ Stores(variant, last.cur.outcome))
    => /\ last.cur.key \in DOMAIN cache
       /\ cache[last.cur.key].data = last.cur.outcome.body
       /\ EntriesFor(last.cur.key) = {last.cur.key}

\* C13 witness: a request found no entry for its key, and by the time its
\* upstream call returned another request had stored a different payload under
\* the key; both had called the upstream, and the cache ends with the payload
\* of the one that stored last.
C13_Witness ==
    /\ \A s \in Slots : req[s].pc = "idle"
    /\ last.pc = "done"
    /\ last.cur.missed
    /\ last.cur.stored = None
    /\ last.cur.upstream = 1
    /\ Stores(variant, last.cur.outcome)
    /\ last.cur.heldAtResume \notin {None, last.cur.outcome.body}
    /\ started = 2
    /\ issued = 2
    /\ cache[last.cur.key].data = last.cur.outcome.body

-----------------------------------------------------------------------------
(* Claims about the results of the dispatchers and the tools               *)

\* The calls of make_weather_request that got an answer from the upstream.
Answered == {d \in Completed : variant = "fastmcp" /\ d.outcome # NoOutcome}

\* The texts and codes of the claimed taxonomy, for the outcomes of the model.
TaxonomyOf(o) ==
    CASE o.kind = "timeout" -> [error |-> "Request timed out", status_code |-> 0]
      [] o.kind = "network" -> [error |-> "Request failed: ", status_code |-> 0]
      [] o.status = 401 -> [error |-> "Invalid API key", status_code |-> 401]
      [] o.status = 404 -> [error |-> "Location not found", status_code |-> 404]
      [] o.status = 500 -> [error |-> "API error: 500", status_code |-> 500]
      [] o.status = 203 -> [error |-> "API error: 203", status_code |-> 203]
      [] OTHER -> [error |-> "", status_code |-> 0]

\* C14 (as claimed): make_weather_request reports a response as a failure if and
\* only if its status is not 2xx; 401, 404, the other non-2xx statuses, a
\* timeout and a network failure get their own error text, and every failure
\* has success false.
C14_TaxonomyByClass ==
    \A d \in Answered :
        /\ d.outcome.kind = "response"
           => (d.ret.success = "false" <=> d.outcome.status \notin 200..299)
        /\ (d.outcome.kind # "response" \/ d.outcome.status \notin 200..299)
           => /\ d.ret.success = "false"
              /\ d.ret.error = TaxonomyOf(d.outcome).error
              /\ d.ret.status_code = TaxonomyOf(d.outcome).status_code

\* C14 (amended): make_weather_request reports a response as a success if and
\* only if its status is exactly 200 and its body parses as JSON. 401 gives
\* 'Invalid API key' with status_code 401, 404 gives 'Location not found' with
\* status_code 404, every other status s that is not 200, the 2xx ones included,
\* gives 'API error: s' with status_code s; a timeout gives 'Request timed
\* out', another network failure 'Request failed: ...', a 200 response whose
\* body is no JSON 'Unexpected error: ...'. Every failure has success false and
\* no data.
C14_TaxonomyExact ==
    \A d \in Answered :
        /\ d.ret.how = "returned"
        /\ d.ret.success = "true"
           <=> (d.outcome.kind = "response" /\ d.outcome.status = 200
                /\ d.outcome.body # None)
        /\ d.ret.success = "true"
           => d.ret.data = d.outcome.body /\ d.ret.error = "" /\ d.ret.status_code = 0
        /\ d.ret.success # "true"
           => /\ d.ret.success = "false"
              /\ d.ret.data = None
              /\ IF d.outcome.kind = "response" /\ d.outcome.status = 200
                 THEN d.ret.error = "Unexpected error: " /\ d.ret.status_code = 0
                 ELSE /\ d.ret.error = TaxonomyOf(d.outcome).error
                      /\ d.ret.status_code = TaxonomyOf(d.outcome).status_code

\* C14 witness: a 203 response with a JSON body was reported as 'API error: 203'.
C14_Witness ==
    /\ variant = "fastmcp"
    /\ last.pc = "done"
    /\ last.cur.outcome.kind = "response"
    /\ last.cur.outcome.status = 203
    /\ last.cur.outcome.body # None
    /\ last.result.success = "false"
    /\ last.result.error = "API error: 203"
    /\ last.result.status_code = 203

\* The request a key stands for: its endpoint and its parameters.
KeyRequest(k) == [endpoint |-> k.endpoint, query |-> SeqSet(k.json)]

\* C15: every cache entry holds a payload that a successful upstream call
\* returned for exactly the endpoint and parameters of the entry's key, so a
\* cache hit hands back data fetched for the parameters the tool asked with.
C15_Provenance ==
    /\ \A k \in DOMAIN cache :
          cache[k].data # None /\ cache[k].data.src = KeyRequest(k)
    /\ \A d \in Completed :
          (d.upstream = 0 /\ d.ret.data # None) => d.ret.data.src = KeyRequest(d.key)
    /\ (last.pc = "done" /\ last.tool \in FetchTools /\ last.result.data # None)
       => last.result.data.src =
             RequestOf(ToolEndpoint(last.tool), ToolParams(variant, last.tool, last.args))

\* C15 witness: with entries for two locations of one endpoint in the cache, a
\* tool was served from the cache and got the payload fetched for its own
\* location.
C15_Witness ==
    /\ last.pc = "done"
    /\ last.tool = "get_current_weather"
    /\ last.cur.upstream = 0
    /\ last.result.data # None
    /\ last.result.data.from_cache
    /\ last.result.data.src.query = {<<"q", "\"London\"">>, <<"units", "\"metric\"">>}
    /\ \E k \in DOMAIN cache :
          /\ k # last.cur.key
          /\ k.endpoint = last.cur.key.endpoint
          /\ cache[k].data.src.query = {<<"q", "\"Paris\"">>, <<"units", "\"metric\"">>}

\* C16: an entry leaves the cache only in a step in which a dispatcher call on
\* the entry's own key ran get_cached and found the entry stale. Calls on other
\* keys, hits, failed requests and the clock leave it in the mapping.
C16_OnlyLazyExpiry ==
    [][\A k \in DOMAIN cache :
          k \notin DOMAIN cache'
          => /\ now - cache[k].timestamp >= CACHE_TTL
             /\ now' = now
             /\ \E d \in (Completed \cup InFlight)' :
                   /\ d \notin Completed \cup InFlight
                   /\ d.key = k
                   /\ d.stored = cache[k].data
                   /\ ~d.hadFresh]_vars

\* C16 witness: a call found the entry of its key stale, the upstream call it
\* then made failed, and the key is gone from the cache.
C16_Witness ==
    /\ last.pc = "done"
    /\ last.cur.stored # None
    /\ ~last.cur.hadFresh
    /\ last.cur.missed
    /\ last.cur.outcome.kind = "network"
    /\ last.cur.key \notin DOMAIN cache
    /\ now >= CACHE_TTL

\* C17: on a successful upstream fetch the dispatcher stores the raw payload
\* before the tool builds its result from it, so the entry is in the cache
\* even when building the result fails.
C17_StoreBeforeShaping ==
    /\ \A d \in Completed : (d.upstream = 1 /\ Stores(variant, d.outcome)) => d.hasKeyAfter
    /\ (/\ \A s \in Slots : req[s].pc = "idle"
        /\ last.pc = "done"
        /\ last.tool \in FetchTools
        /\ last.cur.upstream = 1
        /\ Stores(variant, last.cur.outcome)
        /\ ShapingError(last.cur.outcome.body) # "")
       => /\ last.result.success # "true"
          /\ last.result.error = ShapingError(last.cur.outcome.body)
          /\ last.cur.key \in DOMAIN cache
          /\ cache[last.cur.key].data = last.cur.outcome.body

\* C17 witness: the upstream answered 200 with a payload the result code cannot
\* process; the tool ended with the error and the payload is in the cache.
C17_Witness ==
    /\ last.pc = "done"
    /\ last.tool = "get_current_weather"
    /\ last.cur.upstream = 1
    /\ last.cur.outcome.status = 200
    /\ ShapingError(last.cur.outcome.body) = "IndexError"
    /\ last.result.error = "IndexError"
    /\ last.cur.key \in DOMAIN cache
    /\ cache[last.cur.key].data = last.cur.outcome.body

-----------------------------------------------------------------------------
(* Claims about the API key                                                *)

\* C18 (as claimed): the absence of the key is evaluated on each request: a
\* single-request tool returns the configuration error exactly when the
\* environment holds no key as the request starts, and a request made after the
\* key was put into the environment goes on to the cache and the upstream.
C18_KeyPerRequest ==
    (last.pc = "done" /\ last.tool \in FetchTools)
    => (IsConfigError(last.result.error) <=> last.environ = "")

\* C18 (amended): the key is read once, when the process starts. Every request
\* made by a process that started without a key returns the same configuration
\* error, makes no upstream call and leaves the cache empty, whether or not the
\* key has been put into the environment since; a key configured later takes
\* effect only after a restart.
C18_KeyReadAtStart ==
    /\ api_key = ""
    /\ issued = 0
    /\ cache = EmptyCache
    /\ \A s \in Slots : req[s].pc = "idle"
    /\ (last.pc = "done" /\ last.tool \in FetchTools)
       => /\ last.result = ConfigError(variant)
          /\ Len(last.dcalls) = 1
          /\ last.dcalls[1].upstream = 0

\* C18 witness: a request that started when the environment already held the
\* key got the configuration error.
C18_Witness ==
    /\ api_key = ""
    /\ last.pc = "done"
    /\ last.tool = "get_current_weather"
    /\ last.environ = "test_key"
    /\ IsConfigError(last.result.error)
    /\ started = 2
    /\ issued = 0

\* C19: every upstream call the dispatcher issues carries the configured API
\* key as its appid query parameter.
C19_AppidOnEveryCall ==
    \A s \in Slots :
        req[s].pc = "await"
        => /\ api_key # ""
           /\ Cardinality({i \in 1..Len(req[s].params) : req[s].params[i][1] = "appid"}) = 1
           /\ <<"appid", api_key>> \in SeqSet(req[s].params)

\* C19 witness: the second upstream call of a comparison is in flight, carrying
\* the location, the units and the key.
C19_Witness ==
    \E s \in Slots :
        /\ req[s].pc = "await"
        /\ req[s].tool = "compare_weather"
        /\ Len(req[s].dcalls) = 1
        /\ req[s].params =
              <<<<"q", "\"Paris\"">>, <<"units", "\"metric\"">>, <<"appid", "test_key">>>>

-----------------------------------------------------------------------------
(* Claims about compare_weather                                            *)

\* The variant's compare_weather goes on to fetch for a list of this length.
Accepted(v, locations) == v # "fastmcp" \/ Len(locations) \in 2..5

\* C20 (as claimed): for an accepted list of locations compare_weather returns
\* a 'locations' list with one element per input location, in input order,
\* whatever mix of successes and failures the locations meet; a failure for one
\* location does not keep the following ones from being fetched.
C20_CompareShape ==
    (/\ last.pc = "done"
     /\ last.tool = "compare_weather"
     /\ Accepted(variant, last.args.locations))
    => /\ last.result.how = "returned"
       /\ Len(last.result.locations) = Len(last.args.locations)
       /\ Len(last.dcalls) = Len(last.args.locations)
       /\ \A i \in 1..Len(last.result.locations) :
             /\ last.result.locations[i].location = last.args.locations[i]
             /\ last.result.locations[i].ok
                => <<"q", StrToken(last.args.locations[i])>>
                      \in last.result.locations[i].data.src.query

-----------------------------------------------------------------------------
(* The result of get_current_weather, built from the upstream payload      *)

\* JSON objects are functions from their member names to their values; an
\* object without members and a list without elements are both <<>>.
EmptyDict == <<>>

\* Python's None (JSON null) in a result; no payload value is this string.
JNone == "None"

\* d.get(k, default)
Get(d, k, default) == IF k \in DOMAIN d THEN d[k] ELSE default

\* The object with member k when S holds a value for it, without it otherwise.
Field(k, S) == [x \in {y \in {k} : S # {}} |-> CHOOSE v \in S : TRUE]

\* The payloads of a 200 answer to /weather: each member present or not,
\* 'sys' and 'main' with or without the member read from them, 'weather' an
\* empty or a one-element list, and possibly a member called 'error'.
WeatherPayloads ==
    {Field("name", n) @@ Field("sys", s) @@ Field("main", m)
        @@ Field("weather", w) @@ Field("error", e) :
        n \in {{}, {"London"}},
        s \in {{}, {EmptyDict}, {[country |-> "GB"]}},
        m \in {{}, {EmptyDict}, {[temp |-> "15.5"]}},
        w \in {{}, {<<>>}, {<<[description |-> "partly cloudy"]>>}},
        e \in {{}, {"quota"}}}

\* data.get("weather", [{}])[0] raises IndexError on an empty list.
FirstWeatherFails(data) == Get(data, "weather", <<EmptyDict>>) = <<>>

\* The dict built from the payload.
FormatCurrent(data) ==
    [location |->
        [name |-> Get(data, "name", JNone),
         country |-> Get(Get(data, "sys", EmptyDict), "country", JNone)],
     current |->
        [temperature |-> Get(Get(data, "main", EmptyDict), "temp", JNone),
         description |->
            Get(Get(data, "weather", <<EmptyDict>>)[1], "description", JNone)]]

NoShaped == [how |-> "none", exc |-> "", body |-> EmptyDict]

\* What the tool function gives for a payload the dispatcher handed to it: the
\* class servers hand back, unformatted, a payload that has a member 'error'.
CurrentWeatherOf(v, data) ==
    IF v # "fastmcp" /\ "error" \in DOMAIN data
    THEN [how |-> "returned", exc |-> "", body |-> data]
    ELSE IF FirstWeatherFails(data)
    THEN [how |-> "raised", exc |-> "IndexError", body |-> EmptyDict]
    ELSE [how |-> "returned", exc |-> "", body |-> FormatCurrent(data)]

\* Everything but probe, for the specifications of one function or code path.
server == <<variant, api_key, environ, cache, now, req, last, started, issued, keyProbe, cacheLog>>

\* The server right after construction, none of its tools called.
ServerAtRest ==
    /\ environ = api_key
    /\ cache = EmptyCache
    /\ now = 0
    /\ req = [s \in MainSlots |-> IdleReq]
    /\ last = IdleReq
    /\ started = 0
    /\ issued = 0
    /\ keyProbe = NoProbe
    /\ cacheLog = <<>>

InitShape ==
    /\ variant \in Variants
    /\ api_key = "test_key"
    /\ ServerAtRest
    /\ probe \in [kind : {"shape"}, data : WeatherPayloads, result : {NoShaped}]

ShapeOp ==
    /\ probe.result = NoShaped
    /\ probe' = [probe EXCEPT !.result = CurrentWeatherOf(variant, probe.data)]
    /\ UNCHANGED server

NextShape == ShapeOp

SpecShape == InitShape /\ [][NextShape]_vars

\* C21 (as claimed): for every successful upstream payload the result of
\* get_current_weather carries the payload's name as location.name, its
\* sys.country as location.country and its main.temp as current.temperature.
C21_ShapedFields ==
    (probe.kind = "shape" /\ probe.result # NoShaped)
    => /\ probe.result.how = "returned"
       /\ "location" \in DOMAIN probe.result.body
       /\ "current" \in DOMAIN probe.result.body
       /\ probe.result.body.location.name = Get(probe.data, "name", JNone)
       /\ probe.result.body.location.country
             = Get(Get(probe.data, "sys", EmptyDict), "country", JNone)
       /\ probe.result.body.current.temperature
             = Get(Get(probe.data, "main", EmptyDict), "temp", JNone)

-----------------------------------------------------------------------------
(* Specification SpecNames: the tools that never reach the dispatcher,     *)
(* invoked on any server, with or without a key, whatever the cache holds  *)

\* One tool that fills the cache, and the names call_tool has no fetch for.
NameCalls(v) ==
    {[tool |-> n, args |-> DefaultArgs] :
        n \in {"get_current_weather"}
              \cup (ToolNames(v) \ (FetchTools \cup {"compare_weather"}))}

NextNames ==
    \/ \E s \in Slots : \E call \in NameCalls(variant) : Call(s, call)
    \/ \E s \in Slots :
          \E o \in Outcomes(ToolEndpoint(req[s].tool), req[s].params) : Respond(s, o)
    \/ Tick

SpecNames == Init /\ [][NextNames]_vars

\* The step is a whole invocation of a tool for which pick holds: it began and
\* ended in this step.
Invoked(pick(_)) ==
    /\ started' = started + 1
    /\ \A s \in Slots : req'[s].pc = "idle"
    /\ pick(last'.tool)

\* The names call_tool of the variant has a branch for.
Registered(v) ==
    FetchTools \cup {"compare_weather"}
    \cup (IF v = "stdio" THEN {"get_weather_alerts"} ELSE {})

IsAlerts(name) == variant = "stdio" /\ name = "get_weather_alerts"

IsUnknown(name) == variant # "fastmcp" /\ name \notin Registered(variant)

\* C22: get_weather_alerts of the stdio server returns the fixed paid-tier
\* message whatever the API key and the cache hold, issues no upstream call
\* and leaves the cache as it was.
C22_AlertsFixed ==
    [][Invoked(IsAlerts)
       => /\ last'.result.how = "returned"
          /\ last'.result.message
                = "Weather alerts require OpenWeatherMap One Call API 3.0 (paid tier)"
          /\ last'.result.error = ""
          /\ last'.dcalls = <<>>
          /\ issued' = issued
          /\ cache' = cache]_vars

\* The alerts tool has answered on a server with a key and a stored entry.
C22_Witness ==
    /\ variant = "stdio"
    /\ api_key = "test_key"
    /\ DOMAIN cache # {}
    /\ last.pc = "done"
    /\ last.tool = "get_weather_alerts"
    /\ last.result.message
          = "Weather alerts require OpenWeatherMap One Call API 3.0 (paid tier)"

\* C28: call_tool with a name that is no registered tool returns an error dict
\* naming the tool instead of raising (in the HTTP server too: the exception
\* meant to give a 400 is caught), issues no upstream call and leaves the
\* cache as it was.
C28_UnknownToolReturned ==
    [][Invoked(IsUnknown)
       => /\ last'.result.how = "returned"
          /\ last'.result.error # ""
          /\ last'.result.tool = last'.tool
          /\ last'.dcalls = <<>>
          /\ issued' = issued
          /\ cache' = cache]_vars

\* The HTTP server has answered an unknown name while holding a key and a
\* stored entry.
C28_Witness ==
    /\ variant = "http"
    /\ api_key = "test_key"
    /\ DOMAIN cache # {}
    /\ last.pc = "done"
    /\ last.tool = "no_such_tool"
    /\ last.result.how = "returned"
    /\ last.result.error = "Unknown tool: no_such_tool"
    /\ last.result.tool = "no_such_tool"

-----------------------------------------------------------------------------
(* Specification SpecTtl: the ttl each server is built with                *)

\* The four places that set a ttl: tools/common.py, server.py,
\* server_http.py, server_mcp_sse.py.
TtlFiles == {"common", "server", "server_http", "server_mcp_sse"}

\* The environment variable CACHE_TTL: unset, or set to a text.
TtlEnvs ==
    {[set |-> FALSE, text |-> <<>>],
     [set |-> TRUE, text |-> <<"6", "0">>],
     [set |-> TRUE, text |-> <<"6", "0", "1">>],
     [set |-> TRUE, text |-> <<"t", "e", "n">>]}

\* os.getenv(name, default)
getenv(env, default) == IF env.set THEN env.text ELSE default

IsDigit(ch) == \E d \in 0..9 : Digit(d) = ch

\* int(text) of a text of decimal digits: the number, most significant first.
RECURSIVE int(_)
int(text) ==
    IF text = <<>> THEN 0
    ELSE 10 * int(SubSeq(text, 1, Len(text) - 1))
         + (CHOOSE d \in 0..9 : Digit(d) = text[Len(text)])

\* int(text) raises ValueError.
IntFails(text) == text = <<>> \/ \E i \in 1..Len(text) : ~IsDigit(text[i])

\* A server that ignores the environment and always uses the default.
cache_ttl_fixed(file, env) == [ok |-> TRUE, cache_ttl |-> CACHE_TTL]

\* The ttl a server ends up with when it is built under env; only
\* server_http.py reads the environment.
cache_ttl_of(file, env) ==
    IF file # "server_http" THEN [ok |-> TRUE, cache_ttl |-> CACHE_TTL]
    ELSE IF IntFails(getenv(env, <<"6", "0", "0">>)) THEN [ok |-> FALSE, cache_ttl |-> 0]
    ELSE [ok |-> TRUE, cache_ttl |-> int(getenv(env, <<"6", "0", "0">>))]

\* Ages at which the entry is read: around each ttl that can be in force.
TtlAges == {0, 59, 60, 599, 600, 601}

TtlKey == get_cache_key(BASE_URL \o "/weather", <<<<"q", "\"London\"">>>>)

InitTtl ==
    /\ variant = "http"
    /\ api_key = "test_key"
    /\ ServerAtRest
    /\ probe \in [kind : {"ttl"}, file : TtlFiles, env : TtlEnvs, built : {"no"},
                  cache_ttl : {0}, served : {"none"}]

\* The module is imported, the server object is built.
Build ==
    /\ probe.kind = "ttl"
    /\ probe.built = "no"
    /\ LET b == cache_ttl_of(probe.file, probe.env)
       IN  probe' = [probe EXCEPT !.built = IF b.ok THEN "yes" ELSE "ValueError",
                                  !.cache_ttl = b.cache_ttl]
    /\ UNCHANGED server

\* An entry stored at time 0 is read at the given age.
ReadAt(age) ==
    /\ probe.kind = "ttl"
    /\ probe.built = "yes"
    /\ probe.served = "none"
    /\ now' = age
    /\ LET c == set_cache(EmptyCache, TtlKey, Payload("object", NoSrc, 1), 0)
       IN  /\ cache' = get_cached_cache(c, TtlKey, age, probe.cache_ttl)
           /\ probe' = [probe EXCEPT !.served =
                            IF get_cached_value(c, TtlKey, age, probe.cache_ttl) # None
                            THEN "hit" ELSE "miss"]
    /\ UNCHANGED <<variant, api_key, environ, req, last, started, issued, keyProbe, cacheLog>>

NextTtl ==
    \/ Build
    \/ \E age \in TtlAges : ReadAt(age)

SpecTtl == InitTtl /\ [][NextTtl]_vars

\* The number an override text stands for.
Configured(env) ==
    CASE env.text = <<"6", "0">> -> 60
      [] env.text = <<"6", "0", "1">> -> 601
      [] OTHER -> 0

\* The freshness decisions of a built server are those of ttl.
DecidesWith(ttl) ==
    /\ probe.cache_ttl = ttl
    /\ probe.served # "none" => (probe.served = "hit" <=> now < ttl)

\* C23 (as claimed): in each server variant the ttl of the freshness decisions
\* is 600 by default and the configured value when an override is supplied.
C23_TtlOverridable ==
    (probe.kind = "ttl" /\ probe.built = "yes")
    => DecidesWith(IF probe.env.set THEN Configured(probe.env) ELSE 600)

\* C23 (amended): the ttl is 600 in tools/common.py, server.py and
\* server_mcp_sse.py whatever the configuration says; server_http.py alone
\* takes it from the environment variable CACHE_TTL, read once when the server
\* object is built, 600 when the variable is unset.
C23_TtlByVariant ==
    (probe.kind = "ttl" /\ probe.built = "yes")
    => DecidesWith(IF probe.file = "server_http" /\ probe.env.set
                   THEN Configured(probe.env) ELSE 600)

\* server_http.py built with CACHE_TTL=60 has refused an entry of age 60.
C23_Witness ==
    /\ probe.kind = "ttl"
    /\ probe.file = "server_http"
    /\ probe.env.text = <<"6", "0">>
    /\ probe.cache_ttl = 60
    /\ now = 60
    /\ probe.served = "miss"
    /\ TtlKey \notin DOMAIN cache

-----------------------------------------------------------------------------
(* Specification SpecSteps: two requests for one key, statement by         *)
(* statement, on the event loop                                            *)

Tasks == {"t1", "t2"}

StepKey == get_cache_key(BASE_URL \o "/weather", <<<<"q", "\"London\"">>>>)

\* The locals of one make_weather_request: where it stands (the line it is
\* about to run), the entry get_cached has read, and whether it has deleted an
\* entry.
NoTask == [pc |-> "idle", cached |-> NoEntry, deleted |-> FALSE]

\* A scheduler that may switch between tasks after any statement (threads).
CanRunAny(running, t) == TRUE

\* The event loop runs one task at a time; a task keeps the processor from one
\* await to the next.
CanRun(running, t) == running = "none" \/ running = t

\* Task t has run one statement and stands at pc; it gives the processor up
\* when it awaits or ends.
Ran(t, pc, cached) ==
    probe' = [probe EXCEPT !.task[t] = [pc |-> pc, cached |-> cached,
                                        deleted |-> IF pc = "L28" THEN FALSE
                                                    ELSE @.deleted \/ @.pc = "L33"],
                           !.running = IF pc \in {"await", "done", "KeyError"}
                                       THEN "none" ELSE t]

At(t, pc) ==
    /\ probe.kind = "steps"
    /\ probe.task[t].pc = pc
    /\ CanRun(probe.running, t)

InitSteps ==
    /\ variant = "fastmcp"
    /\ api_key = "test_key"
    /\ environ = api_key
    /\ cache \in {EmptyCache,
                  set_cache(EmptyCache, StepKey, Payload("object", NoSrc, 1), 0)}
    /\ now = 0
    /\ req = [s \in MainSlots |-> IdleReq]
    /\ last = IdleReq
    /\ started = 0
    /\ issued = 0
    /\ keyProbe = NoProbe
    /\ cacheLog = <<>>
    /\ probe = [kind |-> "steps", running |-> "none", task |-> [t \in Tasks |-> NoTask]]

\* make_weather_request is called: the key check passes, the key is computed.
Enter(t) ==
    /\ probe.kind = "steps"
    /\ probe.task[t].pc \in {"idle", "done"}
    /\ CanRun(probe.running, t)
    /\ started < MaxCalls
    /\ started' = started + 1
    /\ Ran(t, "L28", NoEntry)
    /\ UNCHANGED <<variant, api_key, environ, cache, now, req, last, issued, keyProbe, cacheLog>>

\* get_cached: if key in _cache:
L28(t) ==
    /\ At(t, "L28")
    /\ Ran(t, IF StepKey \in DOMAIN cache THEN "L29" ELSE "L74", NoEntry)
    /\ UNCHANGED server

\* get_cached: cached = _cache[key]
L29(t) ==
    /\ At(t, "L29")
    /\ IF StepKey \in DOMAIN cache
       THEN Ran(t, "L30", cache[StepKey])
       ELSE Ran(t, "KeyError", NoEntry)
    /\ UNCHANGED server

\* get_cached: if datetime.now().timestamp() - cached["timestamp"] < CACHE_TTL:
L30(t) ==
    /\ At(t, "L30")
    /\ Ran(t, IF IsFresh(probe.task[t].cached, now, CACHE_TTL) THEN "L65" ELSE "L33",
           probe.task[t].cached)
    /\ UNCHANGED server

\* get_cached: del _cache[key]
L33(t) ==
    /\ At(t, "L33")
    /\ IF StepKey \in DOMAIN cache
       THEN /\ cache' = [k \in DOMAIN cache \ {StepKey} |-> cache[k]]
            /\ Ran(t, "L74", NoEntry)
       ELSE /\ UNCHANGED cache
            /\ Ran(t, "KeyError", NoEntry)
    /\ UNCHANGED <<variant, api_key, environ, now, req, last, started, issued, keyProbe, cacheLog>>

\* make_weather_request: if cached: cached["_from_cache"] = True; return
L65(t) ==
    /\ At(t, "L65")
    /\ IF Hits(probe.task[t].cached.data)
       THEN /\ cache' = IF StepKey \in DOMAIN cache /\ cache[StepKey] = probe.task[t].cached
                        THEN MarkFromCache(cache, StepKey) ELSE cache
            /\ Ran(t, "done", probe.task[t].cached)
       ELSE /\ UNCHANGED cache
            /\ Ran(t, "L74", NoEntry)
    /\ UNCHANGED <<variant, api_key, environ, now, req, last, started, issued, keyProbe, cacheLog>>

\* make_weather_request: response = await client.get(...)
L74(t) ==
    /\ At(t, "L74")
    /\ issued' = issued + 1
    /\ Ran(t, "await", NoEntry)
    /\ UNCHANGED <<variant, api_key, environ, cache, now, req, last, started, keyProbe, cacheLog>>

\* The upstream answers: with 200 the task goes on to set_cache, with a
\* failure it returns the error.
Answer(t, ok) ==
    /\ probe.kind = "steps"
    /\ probe.task[t].pc = "await"
    /\ probe' = [probe EXCEPT !.task[t].pc = IF ok THEN "L78" ELSE "done"]
    /\ UNCHANGED server

\* set_cache: _cache[key] = {"data": data, "timestamp": now}
L78(t) ==
    /\ At(t, "L78")
    /\ cache' = set_cache(cache, StepKey, Payload("object", NoSrc, 1), now)
    /\ Ran(t, "done", NoEntry)
    /\ UNCHANGED <<variant, api_key, environ, now, req, last, started, issued, keyProbe, cacheLog>>

\* The ttl goes by.
Elapse ==
    /\ probe.kind = "steps"
    /\ now < CACHE_TTL
    /\ now' = now + CACHE_TTL
    /\ UNCHANGED <<probe, variant, api_key, environ, cache, req, last, started, issued,
                   keyProbe, cacheLog>>

NextSteps ==
    \/ \E t \in Tasks : Enter(t)
    \/ \E t \in Tasks : L28(t)
    \/ \E t \in Tasks : L29(t)
    \/ \E t \in Tasks : L30(t)
    \/ \E t \in Tasks : L33(t)
    \/ \E t \in Tasks : L65(t)
    \/ \E t \in Tasks : L74(t)
    \/ \E t \in Tasks : \E ok \in BOOLEAN : Answer(t, ok)
    \/ \E t \in Tasks : L78(t)
    \/ Elapse

SpecSteps == InitSteps /\ [][NextSteps]_vars

\* C24: with tasks that switch only at await, get_cached and set_cache never
\* fail (no del of a key that is gone, no read of a missing entry or field),
\* and every entry of the mapping has both its data and its timestamp.
C24_NoCorruption ==
    probe.kind = "steps"
    => /\ \A t \in Tasks : probe.task[t].pc # "KeyError"
       /\ \A k \in DOMAIN cache : DOMAIN cache[k] = {"data", "timestamp"}

\* Two requests met a stale entry: one has deleted it and awaits the upstream,
\* the other is past its own lookup and awaits too.
C24_Witness ==
    /\ probe.kind = "steps"
    /\ now = CACHE_TTL
    /\ \A t \in Tasks : probe.task[t].pc = "await"
    /\ \E t \in Tasks : probe.task[t].deleted
    /\ StepKey \notin DOMAIN cache

-----------------------------------------------------------------------------
(* Claims about what a read leaves behind                                  *)

\* C25: a cache hit leaves the entry's timestamp as it was: the next
\* get_cached finds the entry with the timestamp the hit saw, and returns None
\* once the time is ttl or more past that timestamp, however recent the hit.
C25_NoSlidingExpiry ==
    \A k \in DOMAIN cacheLog : \A i \in 1..2 :
        (/\ Consecutive(k, i)
         /\ cacheLog[k][i].op = "get"
         /\ cacheLog[k][i].ret # None
         /\ cacheLog[k][i + 1].op = "get")
        => /\ cacheLog[k][i + 1].had
           /\ cacheLog[k][i + 1].ts = cacheLog[k][i].ts
           /\ cacheLog[k][i + 1].time >= cacheLog[k][i].ts + CACHE_TTL
              => cacheLog[k][i + 1].ret = None

\* A hit late in the entry's life was followed, less than ttl after the hit
\* and ttl after the store, by a read that returned None.
C25_Witness ==
    \E k \in DOMAIN cacheLog :
        /\ Len(cacheLog[k]) = 2
        /\ cacheLog[k][1].op = "get"
        /\ cacheLog[k][1].ret # None
        /\ cacheLog[k][1].time > cacheLog[k][1].ts
        /\ cacheLog[k][2].op = "get"
        /\ cacheLog[k][2].time - cacheLog[k][1].time < CACHE_TTL
        /\ cacheLog[k][2].time = cacheLog[k][1].ts + CACHE_TTL
        /\ cacheLog[k][2].ts = cacheLog[k][1].ts
        /\ cacheLog[k][2].ret = None

\* C26 (as claimed): whatever hits were served through the dispatcher, the
\* payload held in a cache entry is the raw upstream response that was stored:
\* the from-cache marker is on what is returned only.
C26_StoredPayloadRaw ==
    \A k \in DOMAIN cache : ~cache[k].data.from_cache

-----------------------------------------------------------------------------
(* Specification SpecDup: comparisons that name a location more than once  *)

DupLists == {<<"London", "London">>, <<"London", "Paris", "London">>}

DupCalls == {[tool |-> "compare_weather", args |-> [DefaultArgs EXCEPT !.locations = ls]] :
                ls \in DupLists}

NextDup ==
    \/ \E s \in Slots : \E call \in DupCalls : Call(s, call)
    \/ \E s \in Slots :
          \E o \in Outcomes(ToolEndpoint("get_current_weather"), req[s].params) :
             Respond(s, o)
    \/ Tick

SpecDup == InitRace /\ [][NextDup]_vars

\* The dispatcher calls an invocation has made so far, the pending one last.
CallsOf(r) == IF r.pc = "await" THEN Append(r.dcalls, r.cur) ELSE r.dcalls

\* C27 (as claimed): within one compare_weather call, a location whose first
\* fetch succeeded causes no further upstream call for its later occurrences,
\* as long as the ttl has not gone by.
C27_DuplicatesFetchedOnce ==
    \A r \in {last} \cup {req[s] : s \in Slots} :
        (r.tool = "compare_weather" /\ now < CACHE_TTL)
        => \A i \in 1..Len(CallsOf(r)) : \A j \in 1..Len(CallsOf(r)) :
              (/\ i < j
               /\ CallsOf(r)[i].key = CallsOf(r)[j].key
               /\ Stores(variant, CallsOf(r)[i].outcome))
              => CallsOf(r)[j].upstream = 0

-----------------------------------------------------------------------------
(* Specification SpecForecast: the request get_forecast builds             *)

\* The greatest number of days asked for.
MaxDays == 9

ForecastArgs ==
    {[DefaultArgs EXCEPT !.location = l, !.units = u, !.days = d] :
        l \in {"London", "Paris"},
        u \in {"metric", "imperial", "standard"},
        d \in (0 - 3)..MaxDays}

NoForecast == [cnt |-> 0, params |-> <<>>, key |-> NoKey, key5 |-> NoKey]

InitForecast ==
    /\ variant = "fastmcp"
    /\ api_key = "test_key"
    /\ ServerAtRest
    /\ probe \in [kind : {"forecast"}, args : ForecastArgs, done : {FALSE},
                  built : {NoForecast}]

\* get_forecast up to its call of the dispatcher: endpoint, params and the key
\* the dispatcher derives from them; key5 is the key of the same request with
\* days = 5.
BuildForecast ==
    /\ probe.kind = "forecast"
    /\ ~probe.done
    /\ probe' =
          [probe EXCEPT
             !.done = TRUE,
             !.built =
                [cnt |-> ForecastCnt(variant, probe.args.days),
                 params |-> ToolParams(variant, "get_forecast", probe.args),
                 key |-> get_cache_key(ToolEndpoint("get_forecast"),
                                       ToolParams(variant, "get_forecast", probe.args)),
                 key5 |-> get_cache_key(ToolEndpoint("get_forecast"),
                                        ToolParams(variant, "get_forecast",
                                                   [probe.args EXCEPT !.days = 5]))]]
    /\ UNCHANGED server

NextForecast == BuildForecast

SpecForecast == InitForecast /\ [][NextForecast]_vars

\* C29: the FastMCP get_forecast asks for cnt = 8 * min(days, 5) intervals for
\* every integer days: cnt is at most 40, lies in 8..40 for days >= 1, and a
\* request with days above 5 has the key of the same request with days = 5.
C29_ForecastCount ==
    (probe.kind = "forecast" /\ probe.done)
    => /\ probe.built.cnt = 8 * (IF probe.args.days < 5 THEN probe.args.days ELSE 5)
       /\ <<"cnt", IntToken(probe.built.cnt)>> \in SeqSet(probe.built.params)
       /\ probe.built.cnt <= 40
       /\ probe.args.days >= 1 => probe.built.cnt \in 8..40
       /\ probe.args.days > 5 => probe.built.key = probe.built.key5

\* A forecast for 7 days was turned into the request for 40 intervals, under
\* the key of the 5-day forecast.
C29_Witness ==
    /\ probe.kind = "forecast"
    /\ probe.done
    /\ probe.args.days = 7
    /\ probe.built.cnt = 40
    /\ <<"cnt", "40">> \in SeqSet(probe.built.key.json)
    /\ probe.built.key = probe.built.key5

-----------------------------------------------------------------------------
(* Specification SpecPair: the module-level and the class dispatcher, each *)
(* with its own cache, given the same requests, clock and upstream outcomes *)

PairTools == {"get_current_weather", "search_location"}

\* One dispatcher: its cache, the upstream calls it has issued, whether it
\* awaits the upstream, and its current (or last) call.
NoSide == [cache |-> EmptyCache, calls |-> <<>>, pc |-> "idle", d |-> NoDispatch,
           params |-> <<>>]

\* The dispatcher of variant v is called with the request of the tool.
SideEnter(v, side, ak, t, tool) ==
    LET e == DispatchEnter(v, ak, side.cache, t, ToolEndpoint(tool),
                           ToolParams("fastmcp", tool, DefaultArgs))
    IN  [cache |-> e.c,
         calls |-> IF e.kind = "await"
                   THEN Append(side.calls, RequestOf(ToolEndpoint(tool), e.params))
                   ELSE side.calls,
         pc |-> IF e.kind = "await" THEN "await" ELSE "idle",
         d |-> e.d,
         params |-> e.params]

\* The dispatcher of variant v, if it awaits the upstream, gets outcome o.
SideResume(v, side, t, o) ==
    IF side.pc # "await" THEN side
    ELSE LET x == DispatchResume(v, side.cache, t, side.d, o)
         IN  [side EXCEPT !.cache = x.c, !.pc = "idle", !.d = x.d]

InitPair ==
    /\ variant = "fastmcp"
    /\ api_key \in ApiKeys
    /\ ServerAtRest
    /\ probe = [kind |-> "pair", module |-> NoSide, class |-> NoSide, tool |-> "",
                other2xx |-> FALSE]

PairCall(tool) ==
    /\ probe.kind = "pair"
    /\ probe.module.pc = "idle" /\ probe.class.pc = "idle"
    /\ started < MaxCalls
    /\ started' = started + 1
    /\ probe' = [probe EXCEPT
                    !.tool = tool,
                    !.module = SideEnter("fastmcp", probe.module, api_key, now, tool),
                    !.class = SideEnter("stdio", probe.class, api_key, now, tool)]
    /\ UNCHANGED <<variant, api_key, environ, cache, now, req, last, issued, keyProbe, cacheLog>>

PairAnswer(o) ==
    /\ probe.kind = "pair"
    /\ probe.module.pc = "await" \/ probe.class.pc = "await"
    /\ probe' = [probe EXCEPT
                    !.module = SideResume("fastmcp", probe.module, now, o),
                    !.class = SideResume("stdio", probe.class, now, o),
                    !.other2xx = @ \/ (o.kind = "response" /\ o.status \in 201..299)]
    /\ UNCHANGED server

NextPair ==
    \/ \E tool \in PairTools : PairCall(tool)
    \/ \E o \in Outcomes(ToolEndpoint(probe.tool),
                         IF probe.module.pc = "await" THEN probe.module.params
                         ELSE probe.class.params) : PairAnswer(o)
    \/ Tick

SpecPair == InitPair /\ [][NextPair]_vars

\* Both dispatchers hold the same cache and have issued the same upstream calls.
SameCourse ==
    /\ probe.module.cache = probe.class.cache
    /\ probe.module.calls = probe.class.calls
    /\ probe.module.pc = probe.class.pc

\* The module-level dispatcher reported a success.
ModuleOk == probe.module.d.ret.how = "returned" /\ probe.module.d.ret.success = "true"

\* The class dispatcher reported a success.
ClassOk == probe.class.d.ret.how = "returned" /\ probe.class.d.ret.error = ""

\* C30 (as claimed): on the same requests, clock readings and upstream
\* outcomes the two dispatchers issue the same upstream calls and hold the
\* same cache contents after every step.
C30_DispatchersEquivalent ==
    probe.kind = "pair" => SameCourse

\* C30 (amended): the same holds as long as every 2xx answer has status 200;
\* the two then succeed and fail together, with the same payload, and differ
\* only in how a failure is reported.
C30_DispatchersAgree ==
    (probe.kind = "pair" /\ ~probe.other2xx)
    => /\ SameCourse
       /\ (probe.module.pc = "idle" /\ probe.module.d.key # NoKey)
          => /\ ModuleOk <=> ClassOk
             /\ probe.module.d.ret.data = probe.class.d.ret.data

\* After a stored answer went stale, both dispatchers deleted it and asked the
\* upstream again; the 401 came back as an error dict from one and as an
\* exception from the other.
C30_Witness ==
    /\ probe.kind = "pair"
    /\ ~probe.other2xx
    /\ Len(probe.module.calls) = 2
    /\ probe.module.d.stored # None
    /\ probe.module.d.ret.how = "returned"
    /\ probe.module.d.ret.error = "Invalid API key"
    /\ probe.class.d.ret.how = "raised"
    /\ probe.class.d.ret.error = "HTTPStatusError"
    /\ probe.class.cache = EmptyCache

====
